---------------------------- MODULE Spec2Model ----------------------------
(***************************************************************************)
(* MRZ interpretation pipeline of mrz_extractor.py: line normalisation,    *)
(* candidate detection, format classification, the three fixed-width       *)
(* parsers, ICAO check digits, confidence scoring and the dispatcher, as   *)
(* driven by client.py / api.py (extract_mrz_from_ocr_text, then           *)
(* parse_mrz).                                                             *)
(*                                                                         *)
(* A Python str is a sequence of one-character strings.  None is the empty *)
(* sequence: every place where the code can hold None holds otherwise a    *)
(* non-empty string (a candidate line, a 10-character date).  A Python     *)
(* bool stored in a dict is the string "True" or "False", so that a dict   *)
(* may also hold values that are not bools.  A float is an exact fraction  *)
(* [num, den].  Characters are ASCII, as normalize_mrz_line leaves them.   *)
(***************************************************************************)
EXTENDS Integers, Sequences, FiniteSets, TLC

VARIABLES
    pc,          \* position of the running script / test driver
    text,        \* raw OCR text handed to extract_mrz_from_ocr_text
    raw_lines,   \* text.splitlines()
    idx,         \* index of the next raw line of the for loop (0-based)
    candidates,  \* accepted candidate lines, in source order
    mrz_lines,   \* list returned by extract_mrz_from_ocr_text
    err,         \* the ValueError raised, or NoError
    parsed,      \* record returned by parse_mrz
    arg,         \* argument of the pure function under test
    out          \* results of the pure function under test

vars == <<pc, text, raw_lines, idx, candidates, mrz_lines, err, parsed, arg, out>>

pipeVars == <<text, raw_lines, idx, candidates, mrz_lines, err, parsed>>

-----------------------------------------------------------------------------
(* Characters and Python string primitives                                 *)

Digits == <<"0","1","2","3","4","5","6","7","8","9">>

UpperAZ == <<"A","B","C","D","E","F","G","H","I","J","K","L","M",
             "N","O","P","Q","R","S","T","U","V","W","X","Y","Z">>

LowerAZ == <<"a","b","c","d","e","f","g","h","i","j","k","l","m",
             "n","o","p","q","r","s","t","u","v","w","x","y","z">>

None == <<>>

Range(s) == {s[k] : k \in 1..Len(s)}

IndexIn(s, c) == CHOOSE k \in 1..Len(s) : s[k] = c

\* c.isdigit()
IsDigit(c) == c \in Range(Digits)

\* "A" <= c <= "Z"
IsUpper(c) == c \in Range(UpperAZ)

\* int(s) of a string of decimal digits
RECURSIVE ParseInt(_)
ParseInt(s) ==
    IF s = <<>> THEN 0
    ELSE 10 * ParseInt(SubSeq(s, 1, Len(s) - 1)) + (IndexIn(Digits, s[Len(s)]) - 1)

\* str(n) of a natural number
RECURSIVE IntToStr(_)
IntToStr(n) ==
    IF n < 10 THEN <<Digits[n + 1]>>
    ELSE IntToStr(n \div 10) \o <<Digits[(n % 10) + 1]>>

Min(a, b) == IF a < b THEN a ELSE b

\* s[a:b] with 0 <= a <= b: a slice never fails, it is cut to the string
Slice(s, a, b) == SubSeq(s, a + 1, Min(b, Len(s)))

\* s[a:]
SliceFrom(s, a) == SubSeq(s, a + 1, Len(s))

\* s[i] is an IndexError unless i < len(s)
IndexOk(s, i) == i < Len(s)

\* s[i], where IndexOk(s, i)
At(s, i) == IF IndexOk(s, i) THEN s[i + 1] ELSE "IndexError"

RECURSIVE Fill(_, _)
Fill(c, n) == IF n <= 0 THEN <<>> ELSE <<c>> \o Fill(c, n - 1)

\* s.ljust(n, c): pads on the right, never truncates
Ljust(s, n, c) == s \o Fill(c, n - Len(s))

\* s.startswith(p)
StartsWith(s, p) == Len(s) >= Len(p) /\ SubSeq(s, 1, Len(p)) = p

\* s.count(c) for a single character c
Count(s, c) == Cardinality({k \in 1..Len(s) : s[k] = c})

\* s.replace(c, d) for single characters
Replace(s, c, d) == [k \in 1..Len(s) |-> IF s[k] = c THEN d ELSE s[k]]

\* s.replace(c, "")
Remove(s, c) == SelectSeq(s, LAMBDA ch : ch # c)

Whitespace == {" ", "\t", "\n", "\r", "\f"}

\* s.strip()
RECURSIVE LStrip(_)
LStrip(s) ==
    IF s # <<>> /\ s[1] \in Whitespace THEN LStrip(Tail(s)) ELSE s

RECURSIVE RStrip(_)
RStrip(s) ==
    IF s # <<>> /\ s[Len(s)] \in Whitespace
    THEN RStrip(SubSeq(s, 1, Len(s) - 1)) ELSE s

Strip(s) == RStrip(LStrip(s))

\* c.upper() for one ASCII character
UpperChar(c) ==
    IF c \in Range(LowerAZ) THEN UpperAZ[IndexIn(LowerAZ, c)] ELSE c

\* s.upper()
ToUpper(s) == [k \in 1..Len(s) |-> UpperChar(s[k])]

LineBreaks == {"\n", "\r", "\f"}

\* the positions where a line break starts: the "\n" of a "\r\n" starts none
BreakStarts(t) ==
    {k \in 1..Len(t) :
        t[k] \in LineBreaks /\ ~(t[k] = "\n" /\ k > 1 /\ t[k - 1] = "\r")}

\* the last position of the break that starts at k: "\r\n" is one break
BreakEnd(t, k) ==
    IF t[k] = "\r" /\ k < Len(t) /\ t[k + 1] = "\n" THEN k + 1 ELSE k

\* text.splitlines(): a break ends a line, and no empty last line follows a
\* final break
SplitLines(t) ==
    LET B == BreakStarts(t)
        n == Cardinality(B)
        nth(j) == CHOOSE k \in B : Cardinality({b \in B : b < k}) = j - 1
        start(j) == IF j = 1 THEN 1 ELSE BreakEnd(t, nth(j - 1)) + 1
        ended == [j \in 1..n |-> SubSeq(t, start(j), nth(j) - 1)]
        rest == IF n = 0 THEN 1 ELSE BreakEnd(t, nth(n)) + 1
    IN  IF rest <= Len(t) THEN Append(ended, SubSeq(t, rest, Len(t))) ELSE ended

\* first index of sep (two characters) in s at or after position k (1-based),
\* 0 when there is none
RECURSIVE Find2(_, _, _)
Find2(s, sep, k) ==
    IF k + 1 > Len(s) THEN 0
    ELSE IF s[k] = sep[1] /\ s[k + 1] = sep[2] THEN k
    ELSE Find2(s, sep, k + 1)

\* s.split(sep): every non-overlapping occurrence, left to right
RECURSIVE SplitAll(_, _)
SplitAll(s, sep) ==
    LET k == Find2(s, sep, 1) IN
    IF k = 0 THEN <<s>>
    ELSE <<SubSeq(s, 1, k - 1)>> \o SplitAll(SubSeq(s, k + 2, Len(s)), sep)

\* s.split(sep, 1): the first occurrence only
SplitOnce(s, sep) ==
    LET k == Find2(s, sep, 1) IN
    IF k = 0 THEN <<s>>
    ELSE <<SubSeq(s, 1, k - 1), SubSeq(s, k + 2, Len(s))>>

-----------------------------------------------------------------------------
(* ICAO check digit helpers                                                *)

\* the letters counted from 11
mrz_char_value_from_11(c) ==
    IF IsDigit(c) THEN IndexIn(Digits, c) - 1
    ELSE IF IsUpper(c) THEN (IndexIn(UpperAZ, c) - 1) + 11
    ELSE 0

mrz_char_value(c) ==
    IF IsDigit(c) THEN IndexIn(Digits, c) - 1
    ELSE IF IsUpper(c) THEN (IndexIn(UpperAZ, c) - 1) + 10
    ELSE IF c = "<" THEN 0
    ELSE 0

\* the weights in the reverse order
weights_reversed == <<1, 3, 7>>

weights == <<7, 3, 1>>

\* the for loop of mrz_check_digit: i is the 0-based position, total the sum
RECURSIVE CheckLoop(_, _, _)
CheckLoop(field, i, total) ==
    IF i >= Len(field) THEN total
    ELSE CheckLoop(field, i + 1,
                   total + mrz_char_value(field[i + 1]) * weights[(i % 3) + 1])

mrz_check_digit(field) == IntToStr(CheckLoop(field, 0, 0) % 10)

\* a Python bool, as it is kept in a dict
PyBool(b) == IF b THEN "True" ELSE "False"

\* mrz_check_digit(field) == cd, the entry of check_digits for one field
check_valid(field, cd) == PyBool(mrz_check_digit(field) = <<cd>>)

-----------------------------------------------------------------------------
(* OCR auto-correction for MRZ lines                                       *)

MrzAlphabet == Range(UpperAZ) \cup Range(Digits) \cup {"<"}

\* re.sub(r"[^A-Z0-9<]", "", line.upper())
KeepMrzChars(line) == SelectSeq(ToUpper(line), LAMBDA c : c \in MrzAlphabet)

\* one iteration of smart_fix at 0-based position i; s_list is changed in
\* place, so position i-1 is read after its own substitution
SmartFixAt(s_list, i) ==
    LET ch == s_list[i + 1]
        digitBefore == i > 0 /\ IsDigit(s_list[i])
    IN  IF ch = "O" /\ digitBefore THEN [s_list EXCEPT ![i + 1] = "0"]
        ELSE IF ch = "I" /\ digitBefore THEN [s_list EXCEPT ![i + 1] = "1"]
        ELSE IF ch = "B" /\ digitBefore THEN [s_list EXCEPT ![i + 1] = "8"]
        ELSE IF ch = "S" /\ digitBefore THEN [s_list EXCEPT ![i + 1] = "5"]
        ELSE s_list

RECURSIVE SmartFixLoop(_, _)
SmartFixLoop(s_list, i) ==
    IF i >= Len(s_list) THEN s_list
    ELSE SmartFixLoop(SmartFixAt(s_list, i), i + 1)

\* the substitution decided on an untouched copy of the line
smart_fix_from_copy(s) ==
    [k \in 1..Len(s) |->
        IF k > 1 /\ IsDigit(s[k - 1])
        THEN CASE s[k] = "O" -> "0" [] s[k] = "I" -> "1" [] s[k] = "B" -> "8"
               [] s[k] = "S" -> "5" [] OTHER -> s[k]
        ELSE s[k]]

smart_fix(s) == SmartFixLoop(s, 0)

normalize_mrz_line(line) == smart_fix(KeepMrzChars(line))

-----------------------------------------------------------------------------
(* Field parsers                                                           *)

FILLER == "<"

NAME_SEP == <<"<", "<">>

TD1_WIDTH == 30

TD2_WIDTH == 36

TD3_WIDTH == 44

TD1_TYPE == <<"T","D","1"," ","(","I","D"," ","C","a","r","d",")">>

TD2_TYPE == <<"T","D","2"," ","(","V","i","s","a",")">>

TD3_TYPE == <<"T","D","3"," ","(","P","a","s","s","p","o","r","t",")">>

\* x.replace("<", " ").strip()
NameText(x) == Strip(Replace(x, FILLER, " "))

\* convert(d) of parse_td3: re.match(r"^\d{6}$", d), then the pivot at 30
td3_convert(d) ==
    IF ~(Len(d) = 6 /\ \A k \in 1..Len(d) : IsDigit(d[k])) THEN None
    ELSE LET yy == ParseInt(Slice(d, 0, 2))
             mm == Slice(d, 2, 4)
             dd == Slice(d, 4, 6)
             year == IF yy < 30 THEN 2000 + yy ELSE 1900 + yy
         IN  IntToStr(year) \o <<"-">> \o mm \o <<"-">> \o dd

\* the pivot year taken into this century
td1_convert_pivot_30(d) ==
    IF ~(Len(d) = 6 /\ \A k \in 1..Len(d) : IsDigit(d[k])) THEN None
    ELSE LET yy == ParseInt(Slice(d, 0, 2))
             year == IF yy <= 30 THEN 2000 + yy ELSE 1900 + yy
         IN  IntToStr(year) \o <<"-">> \o Slice(d, 2, 4) \o <<"-">> \o Slice(d, 4, 6)

\* convert(d) of parse_td1
td1_convert(d) ==
    IF ~(Len(d) = 6 /\ \A k \in 1..Len(d) : IsDigit(d[k])) THEN None
    ELSE LET yy == ParseInt(Slice(d, 0, 2))
             mm == Slice(d, 2, 4)
             dd == Slice(d, 4, 6)
             year == IF yy < 30 THEN 2000 + yy ELSE 1900 + yy
         IN  IntToStr(year) \o <<"-">> \o mm \o <<"-">> \o dd

\* convert(d) of parse_td2
td2_convert(d) ==
    IF ~(Len(d) = 6 /\ \A k \in 1..Len(d) : IsDigit(d[k])) THEN None
    ELSE LET yy == ParseInt(Slice(d, 0, 2))
             mm == Slice(d, 2, 4)
             dd == Slice(d, 4, 6)
             year == IF yy < 30 THEN 2000 + yy ELSE 1900 + yy
         IN  IntToStr(year) \o <<"-">> \o mm \o <<"-">> \o dd

\* name_section.split("<<", 1) of parse_td3
td3_name_parts(name_section) == SplitOnce(name_section, NAME_SEP)

\* l3.split("<<") of parse_td1
td1_name_parts(l3) == SplitAll(l3, NAME_SEP)

\* l1[5:].split("<<") of parse_td2
td2_name_parts(name_section) == SplitAll(name_section, NAME_SEP)

\* the subscripts line1[0], line2[9], ... of parse_td3 are all in range
td3_index_ok(lines) ==
    LET line1 == Ljust(lines[1], TD3_WIDTH, FILLER)
        line2 == Ljust(lines[2], TD3_WIDTH, FILLER)
    IN  /\ IndexOk(line1, 0)
        /\ \A k \in {9, 19, 20, 27, 42, 43} : IndexOk(line2, k)

parse_td3(lines) ==
    LET line1 == Ljust(lines[1], TD3_WIDTH, FILLER)
        line2 == Ljust(lines[2], TD3_WIDTH, FILLER)
        document_type == At(line1, 0)
        issuing_country == Slice(line1, 2, 5)
        name_section == SliceFrom(line1, 5)
        parts == td3_name_parts(name_section)
        surname == NameText(parts[1])
        given_names == IF Len(parts) > 1 THEN NameText(parts[2]) ELSE <<>>
        passport_num == Slice(line2, 0, 9)
        passport_cd == At(line2, 9)
        nationality == Slice(line2, 10, 13)
        dob == Slice(line2, 13, 19)
        dob_cd == At(line2, 19)
        sex == At(line2, 20)
        expiry == Slice(line2, 21, 27)
        expiry_cd == At(line2, 27)
        optional == Slice(line2, 28, 42)
        optional_cd == At(line2, 42)
        composite_cd == At(line2, 43)
    IN  [mrz_type |-> TD3_TYPE,
         fields |->
            [document_type |-> document_type,
             issuing_country |-> issuing_country,
             surname |-> surname,
             given_names |-> given_names,
             passport_number |-> Remove(passport_num, FILLER),
             nationality |-> nationality,
             date_of_birth |-> td3_convert(dob),
             sex |-> sex,
             date_of_expiry |-> td3_convert(expiry),
             optional_data |-> Remove(optional, FILLER)],
         check_digits |->
            [passport_valid |-> check_valid(passport_num, passport_cd),
             dob_valid |-> check_valid(dob, dob_cd),
             expiry_valid |-> check_valid(expiry, expiry_cd),
             optional_valid |-> check_valid(optional, optional_cd),
             composite_valid |->
                check_valid(passport_num \o <<passport_cd>> \o
                            nationality \o dob \o <<dob_cd>> \o
                            <<sex>> \o expiry \o <<expiry_cd>> \o
                            optional \o <<optional_cd>>, composite_cd)]]

\* the subscripts l1[14], l2[6], ... of parse_td1 are all in range
td1_index_ok(lines) ==
    LET l1 == Ljust(lines[1], TD1_WIDTH, FILLER)
        l2 == Ljust(lines[2], TD1_WIDTH, FILLER)
    IN  /\ IndexOk(l1, 14)
        /\ \A k \in {6, 7, 14, 29} : IndexOk(l2, k)

parse_td1(lines) ==
    LET l1 == Ljust(lines[1], TD1_WIDTH, FILLER)
        l2 == Ljust(lines[2], TD1_WIDTH, FILLER)
        l3 == Ljust(lines[3], TD1_WIDTH, FILLER)
        doc_type == Slice(l1, 0, 2)
        issuing_country == Slice(l1, 2, 5)
        doc_num == Slice(l1, 5, 14)
        doc_cd == At(l1, 14)
        optional1 == Slice(l1, 15, 30)
        dob == Slice(l2, 0, 6)
        dob_cd == At(l2, 6)
        sex == At(l2, 7)
        exp == Slice(l2, 8, 14)
        exp_cd == At(l2, 14)
        nationality == Slice(l2, 15, 18)
        optional2 == Slice(l2, 18, 29)
        optional2_cd == At(l2, 29)
        name_parts == td1_name_parts(l3)
        surname == NameText(name_parts[1])
        given_names == IF Len(name_parts) > 1 THEN NameText(name_parts[2]) ELSE <<>>
    IN  [mrz_type |-> TD1_TYPE,
         fields |->
            [document_type |-> doc_type,
             issuing_country |-> issuing_country,
             document_number |-> Remove(doc_num, FILLER),
             surname |-> surname,
             given_names |-> given_names,
             sex |-> sex,
             nationality |-> nationality,
             date_of_birth |-> td1_convert(dob),
             date_of_expiry |-> td1_convert(exp),
             optional_data |-> Remove(optional1 \o optional2, FILLER)],
         check_digits |->
            [document_number_valid |-> check_valid(doc_num, doc_cd),
             dob_valid |-> check_valid(dob, dob_cd),
             expiry_valid |-> check_valid(exp, exp_cd),
             optional2_valid |-> check_valid(optional2, optional2_cd)]]

\* the subscripts l1[0], l2[9], ... of parse_td2 are all in range
td2_index_ok(lines) ==
    LET l1 == Ljust(lines[1], TD2_WIDTH, FILLER)
        l2 == Ljust(lines[2], TD2_WIDTH, FILLER)
    IN  /\ IndexOk(l1, 0)
        /\ \A k \in {9, 19, 20, 27, 35} : IndexOk(l2, k)

parse_td2(lines) ==
    LET l1 == Ljust(lines[1], TD2_WIDTH, FILLER)
        l2 == Ljust(lines[2], TD2_WIDTH, FILLER)
        doc_type == At(l1, 0)
        issuing_country == Slice(l1, 2, 5)
        name_parts == td2_name_parts(SliceFrom(l1, 5))
        surname == NameText(name_parts[1])
        given_names == IF Len(name_parts) > 1 THEN NameText(name_parts[2]) ELSE <<>>
        passport_num == Slice(l2, 0, 9)
        passport_cd == At(l2, 9)
        nationality == Slice(l2, 10, 13)
        dob == Slice(l2, 13, 19)
        dob_cd == At(l2, 19)
        sex == At(l2, 20)
        expiry == Slice(l2, 21, 27)
        expiry_cd == At(l2, 27)
        optional == Slice(l2, 28, 35)
        optional_cd == At(l2, 35)
    IN  [mrz_type |-> TD2_TYPE,
         fields |->
            [document_type |-> doc_type,
             issuing_country |-> issuing_country,
             surname |-> surname,
             given_names |-> given_names,
             passport_number |-> Remove(passport_num, FILLER),
             nationality |-> nationality,
             sex |-> sex,
             date_of_birth |-> td2_convert(dob),
             date_of_expiry |-> td2_convert(expiry),
             optional_data |-> Remove(optional, FILLER)],
         check_digits |->
            [passport_valid |-> check_valid(passport_num, passport_cd),
             dob_valid |-> check_valid(dob, dob_cd),
             expiry_valid |-> check_valid(expiry, expiry_cd),
             optional_valid |-> check_valid(optional, optional_cd)]]

-----------------------------------------------------------------------------
(* Confidence scoring                                                      *)

Frac(n, d) == [num |-> n, den |-> d]

FracLe(a, b) == a.num * b.den <= b.num * a.den

FracEq(a, b) == a.num * b.den = b.num * a.den

FracAdd(a, b) == Frac(a.num * b.den + b.num * a.den, a.den * b.den)

FracMin(a, b) == IF FracLe(b, a) THEN b ELSE a

FracMax(a, b) == IF FracLe(a, b) THEN b ELSE a

EmptyDict == <<>>

\* d.get(key, default)
Get(d, key, default) == IF key \in DOMAIN d THEN d[key] ELSE default

\* isinstance(v, bool)
IsBool(v) == v \in {"True", "False"}

\* the bonus given whatever the type
TypeBonus_always(mrz_type) == Frac(1, 10)

\* the bonus of compute_confidence: mrz_type.startswith("TD")
TypeBonus(mrz_type) ==
    IF StartsWith(mrz_type, <<"T", "D">>) THEN Frac(1, 10) ELSE Frac(0, 1)

compute_confidence(p) ==
    LET cd == Get(p, "check_digits", EmptyDict)
        bools == {k \in DOMAIN cd : IsBool(cd[k])}
        trues == {k \in bools : cd[k] = "True"}
    IN  IF DOMAIN cd = {} THEN Frac(3, 10)
        ELSE IF bools = {} THEN Frac(4, 10)
        ELSE LET base == FracAdd(Frac(Cardinality(trues), Cardinality(bools)),
                                 TypeBonus(Get(p, "mrz_type", <<>>)))
             IN  FracMax(Frac(0, 1), FracMin(Frac(1, 1), base))

-----------------------------------------------------------------------------
(* Main dispatch                                                           *)

NoError == "no error"

ERR_NO_MRZ == "Could not detect MRZ-like lines in OCR output."

ERR_NOT_ENOUGH == "Not enough MRZ lines found."

ERR_UNSUPPORTED == "Unsupported MRZ layout."

ERR_INDEX == "IndexError"

NoRecord == [mrz_type |-> <<>>]

\* the test with the TD2 width as the threshold of "very long"
IsTd3Pair_from_36(lines) ==
    StartsWith(lines[1], <<"P", "<">>) \/ Len(lines[1]) >= TD2_WIDTH

\* the test of line 335: starts with P< or very long
IsTd3Pair(lines) == StartsWith(lines[1], <<"P", "<">>) \/ Len(lines[1]) >= 40

\* parsed["confidence"] = compute_confidence(parsed)
WithConfidence(p) ==
    [k \in DOMAIN p \cup {"confidence"} |->
        IF k = "confidence" THEN compute_confidence(p) ELSE p[k]]

\* parse_mrz: [raised |-> the exception or NoError, value |-> the record]
parse_mrz(lines) ==
    IF Len(lines) = 3 THEN
        IF td1_index_ok(lines)
        THEN [raised |-> NoError, value |-> WithConfidence(parse_td1(lines))]
        ELSE [raised |-> ERR_INDEX, value |-> NoRecord]
    ELSE IF Len(lines) = 2 THEN
        IF IsTd3Pair(lines) THEN
            IF td3_index_ok(lines)
            THEN [raised |-> NoError, value |-> WithConfidence(parse_td3(lines))]
            ELSE [raised |-> ERR_INDEX, value |-> NoRecord]
        ELSE
            IF td2_index_ok(lines)
            THEN [raised |-> NoError, value |-> WithConfidence(parse_td2(lines))]
            ELSE [raised |-> ERR_INDEX, value |-> NoRecord]
    ELSE [raised |-> ERR_UNSUPPORTED, value |-> NoRecord]

-----------------------------------------------------------------------------
(* Extraction of the MRZ lines from raw OCR text                           *)

MIN_FILLERS == 2

MIN_LINE_LEN == 25

TD1_MIN_LEN == 28

TD1_MAX_LEN == 36

\* the filter with "or" in place of "and"
IsCandidate_either(ln) == Count(ln, FILLER) >= MIN_FILLERS \/ Len(ln) >= MIN_LINE_LEN

\* the filter of line 74, on a normalised line
IsCandidate(ln) == Count(ln, FILLER) >= MIN_FILLERS /\ Len(ln) >= MIN_LINE_LEN

\* one iteration of the for loop over raw_lines: the candidates after it
ScanLine(cands, raw) ==
    LET ln == Strip(raw) IN
    IF ln = <<>> THEN cands
    ELSE LET norm == normalize_mrz_line(ln) IN
         IF IsCandidate(norm) THEN Append(cands, norm) ELSE cands

\* [c for c in candidates if 28 <= len(c) <= 36]
Td1Lines(cands) ==
    SelectSeq(cands, LAMBDA c : TD1_MIN_LEN <= Len(c) /\ Len(c) <= TD1_MAX_LEN)

\* next((c for c in candidates if c.startswith("P<")), None)
FirstPassportLine(cands) ==
    LET hits == {k \in 1..Len(cands) : StartsWith(cands[k], <<"P", "<">>)} IN
    IF hits = {} THEN None
    ELSE cands[CHOOSE k \in hits : \A j \in hits : k <= j]

\* [c for c in candidates if c != line1]: compared by value
Others(cands, line1) == SelectSeq(cands, LAMBDA c : c # line1)

\* x put into s, a list in descending length, after the entries as long as it
RECURSIVE InsertByLen(_, _)
InsertByLen(s, x) ==
    IF s = <<>> THEN <<x>>
    ELSE IF Len(s[1]) >= Len(x) THEN <<s[1]>> \o InsertByLen(Tail(s), x)
    ELSE <<x>> \o s

\* sorted(s, key=lambda x: -len(x)): stable, longest first
RECURSIVE SortedByLen(_)
SortedByLen(s) ==
    IF s = <<>> THEN <<>>
    ELSE InsertByLen(SortedByLen(SubSeq(s, 1, Len(s) - 1)), s[Len(s)])

\* the fallback cut after one line instead of two
Top2_one_line(cands) == SubSeq(SortedByLen(cands), 1, Min(1, Len(cands)))

\* the TD2 fallback: sorted(candidates, key=lambda x: -len(x))[:2]
Top2(cands) == SubSeq(SortedByLen(cands), 1, Min(2, Len(cands)))

\* lines 77-99: [raised |-> the ValueError or NoError, value |-> the list]
SelectLines(cands) ==
    LET td1 == Td1Lines(cands)
        line1 == FirstPassportLine(cands)
        others == Others(cands, line1)
    IN  IF cands = <<>> THEN [raised |-> ERR_NO_MRZ, value |-> <<>>]
        ELSE IF Len(td1) >= 3 THEN [raised |-> NoError, value |-> SubSeq(td1, 1, 3)]
        ELSE IF line1 # None /\ others # <<>>
             THEN [raised |-> NoError, value |-> <<line1, SortedByLen(others)[1]>>]
        ELSE IF Len(cands) >= 2 THEN [raised |-> NoError, value |-> Top2(cands)]
        ELSE [raised |-> ERR_NOT_ENOUGH, value |-> <<>>]

-----------------------------------------------------------------------------
(* OCR outputs given to the pipeline                                       *)

\* TD1 line 1 (30 characters)
LINE_TD1_1 ==
    <<"I","<","U","T","O","D","2","3","1","4","5","8","9","0","7","<","<",
      "<","<","<","<","<","<","<","<","<","<","<","<","<">>

\* TD1 line 2 whose four embedded check digits are right
LINE_TD1_2 ==
    <<"7","4","0","8","1","2","2","F","1","2","0","4","1","5","9","U","T",
      "O","<","<","<","<","<","<","<","<","<","<","<","0">>

\* TD1 line 3, the name block
LINE_TD1_3 ==
    <<"E","R","I","K","S","S","O","N","<","<","A","N","N","A","<","M","A",
      "R","I","A","<","<","<","<","<","<","<","<","<","<">>

\* TD1 line 2 ending in the ICAO composite digit, which is not the
\* check digit of optional block 2
LINE_TD1_2_ICAO ==
    <<"7","4","0","8","1","2","2","F","1","2","0","4","1","5","9","U","T",
      "O","<","<","<","<","<","<","<","<","<","<","<","6">>

\* TD3 line 1 (44 characters)
LINE_TD3_1 ==
    <<"P","<","U","T","O","E","R","I","K","S","S","O","N","<","<","A","N",
      "N","A","<","M","A","R","I","A","<","<","<","<","<","<","<","<","<",
      "<","<","<","<","<","<","<","<","<","<">>

\* TD3 line 2 whose five embedded check digits are right
LINE_TD3_2 ==
    <<"L","8","9","8","9","0","2","C","3","6","U","T","O","7","4","0","8",
      "1","2","2","F","1","2","0","4","1","5","9","<","<","<","<","<","<",
      "<","<","<","<","<","<","<","<","0","2">>

\* TD2 line 2 (36 characters)
LINE_TD2_2 ==
    <<"D","2","3","1","4","5","8","9","0","7","U","T","O","7","4","0","8",
      "1","2","2","F","1","2","0","4","1","5","9","<","<","<","<","<","<",
      "<","6">>

\* a noisy line: lower case, blanks, a carriage return; 25 MRZ characters
LINE_NOISY ==
    <<" "," ","p","<","u","t","o"," ","e","r","i","k","s","s","o","n","<",
      "<","a","n","n","a","<","m","a","r","i","a","\t","\r">>

\* a whitespace-only line
LINE_BLANK ==
    <<" "," ">>

\* a printed caption: long enough, but without a filler
LINE_LABEL ==
    <<"M","a","c","h","i","n","e"," ","R","e","a","d","a","b","l","e"," ",
      "Z","o","n","e"," ","o","f"," ","p","a","s","s","p","o","r","t">>

\* a fragment with fillers that is too short
LINE_SHORT ==
    <<"U","T","O","<","<","A","N","N","A","<","M","A","R","I","A">>

RawLinePool ==
    {LINE_TD1_1, LINE_TD1_2, LINE_TD1_3, LINE_TD1_2_ICAO, LINE_TD3_1,
     LINE_TD3_2, LINE_TD2_2, LINE_NOISY, LINE_BLANK, LINE_LABEL, LINE_SHORT}

MaxLines == 3

\* the lines of an OCR output, each ended by a newline
RECURSIVE JoinLines(_)
JoinLines(ls) ==
    IF ls = <<>> THEN <<>> ELSE ls[1] \o <<"\n">> \o JoinLines(Tail(ls))

Texts ==
    {JoinLines(ls) : ls \in UNION {[1..n -> RawLinePool] : n \in 0..MaxLines}}

-----------------------------------------------------------------------------
(* The pipeline of client.py / api.py                                      *)

Idle == <<>>

Init ==
    /\ pc = "splitlines"
    /\ text \in Texts
    /\ raw_lines = <<>>
    /\ idx = 0
    /\ candidates = <<>>
    /\ mrz_lines = <<>>
    /\ err = NoError
    /\ parsed = NoRecord
    /\ arg = Idle
    /\ out = Idle

\* raw_lines = text.splitlines(); candidates = []
SplitText ==
    /\ pc = "splitlines"
    /\ raw_lines' = SplitLines(text)
    /\ candidates' = <<>>
    /\ idx' = 0
    /\ pc' = "scan"
    /\ UNCHANGED <<text, mrz_lines, err, parsed, arg, out>>

\* one iteration of "for ln in raw_lines"
Scan ==
    /\ pc = "scan"
    /\ idx < Len(raw_lines)
    /\ candidates' = ScanLine(candidates, raw_lines[idx + 1])
    /\ idx' = idx + 1
    /\ UNCHANGED <<pc, text, raw_lines, mrz_lines, err, parsed, arg, out>>

\* the rest of extract_mrz_from_ocr_text: it returns the list or raises
Classify ==
    /\ pc = "scan"
    /\ idx >= Len(raw_lines)
    /\ LET r == SelectLines(candidates) IN
        /\ err' = r.raised
        /\ mrz_lines' = r.value
        /\ pc' = IF r.raised = NoError THEN "parse" ELSE "failed"
    /\ UNCHANGED <<text, raw_lines, idx, candidates, parsed, arg, out>>

\* parsed = parse_mrz(mrz)
ParseMrz ==
    /\ pc = "parse"
    /\ LET r == parse_mrz(mrz_lines) IN
        /\ err' = r.raised
        /\ parsed' = r.value
        /\ pc' = IF r.raised = NoError THEN "done" ELSE "failed"
    /\ UNCHANGED <<text, raw_lines, idx, candidates, mrz_lines, arg, out>>

Next == SplitText \/ Scan \/ Classify \/ ParseMrz

Spec == Init /\ [][Next]_vars

-----------------------------------------------------------------------------
(* The ICAO 9303 check digit, stated without the code                      *)

\* the weight of the 0-based position i
RefWeight(i) == CASE i % 3 = 0 -> 7 [] i % 3 = 1 -> 3 [] i % 3 = 2 -> 1

\* digits count as themselves, A..Z as 10..35, everything else as 0
RefValue(c) ==
    IF \E n \in 0..9 : Digits[n + 1] = c
    THEN CHOOSE n \in 0..9 : Digits[n + 1] = c
    ELSE IF \E n \in 0..25 : UpperAZ[n + 1] = c
    THEN 10 + (CHOOSE n \in 0..25 : UpperAZ[n + 1] = c)
    ELSE 0

RECURSIVE RefSum(_)
RefSum(field) ==
    IF field = <<>> THEN 0
    ELSE RefSum(SubSeq(field, 1, Len(field) - 1))
         + RefValue(field[Len(field)]) * RefWeight(Len(field) - 1)

\* the check digit, as a one-character string
RefDigit(field) == <<Digits[(RefSum(field) % 10) + 1]>>

-----------------------------------------------------------------------------
(* Claims about the pipeline                                               *)

Returned == pc \in {"parse", "done"}

Classified == pc \in {"parse", "done", "failed"} /\ idx >= Len(raw_lines)

RecordKeys == {"mrz_type", "fields", "check_digits", "confidence"}

\* C1: whenever extract_mrz_from_ocr_text returns, its list has 2 or 3 lines
\* and parse_mrz on it returns a complete record without raising: the only
\* failures of the pipeline are the two of the extractor.
C1_ExtractedListAlwaysParses ==
    /\ Returned => Len(mrz_lines) \in {2, 3}
    /\ pc = "failed" => err \in {ERR_NO_MRZ, ERR_NOT_ENOUGH}
    /\ pc = "done" =>
        /\ err = NoError
        /\ DOMAIN parsed = RecordKeys
        /\ parsed.mrz_type \in {TD1_TYPE, TD2_TYPE, TD3_TYPE}

C1_Witness ==
    /\ pc = "done"
    /\ Len(mrz_lines) = 2
    /\ parsed.mrz_type = TD2_TYPE
    /\ DOMAIN parsed = RecordKeys

\* the raw lines that pass the candidate filter: stripped, not blank,
\* normalised, with at least 2 fillers and at least 25 characters
AcceptedLines ==
    {k \in 1..Len(raw_lines) :
        LET ln == normalize_mrz_line(Strip(raw_lines[k])) IN
        Count(ln, "<") >= 2 /\ Len(ln) >= 25}

\* C2: the extractor fails with "no MRZ detected" exactly when no line is
\* accepted, with "insufficient MRZ lines" exactly when one line is accepted,
\* never with two or more, and returns no list when it fails.
C2_FailureByCandidateCount ==
    Classified =>
        LET n == Cardinality(AcceptedLines)
            extractErr == IF Returned THEN NoError ELSE err
        IN  /\ n = 0 => extractErr = ERR_NO_MRZ /\ mrz_lines = <<>>
            /\ n = 1 => extractErr = ERR_NOT_ENOUGH /\ mrz_lines = <<>>
            /\ n >= 2 => Returned /\ mrz_lines # <<>>
            /\ Len(candidates) = n

C2_Witness ==
    /\ pc = "failed"
    /\ Cardinality(AcceptedLines) = 1
    /\ Len(raw_lines) >= 2
    /\ err = ERR_NOT_ENOUGH
    /\ mrz_lines = <<>>

\* two candidates of one length, neither starting with "P<"
EqualLengthPair ==
    /\ Classified
    /\ Len(candidates) = 2
    /\ Len(candidates[1]) = Len(candidates[2])
    /\ \A k \in 1..2 : ~StartsWith(candidates[k], <<"P", "<">>)

PassportPositions == {k \in 1..Len(candidates) : StartsWith(candidates[k], <<"P", "<">>)}

\* the candidate at position j is the longest one outside position p, and the
\* first of that length
LongestOutside(p, j) ==
    /\ j \in (1..Len(candidates)) \ {p}
    /\ \A k \in (1..Len(candidates)) \ {p} :
        /\ Len(candidates[k]) <= Len(candidates[j])
        /\ k < j => Len(candidates[k]) < Len(candidates[j])

\* C4: with fewer than 3 candidates of length 28..36, a candidate that starts
\* with "P<" and at least one candidate at another position, the extractor
\* returns the first "P<" candidate followed by the longest candidate at any
\* other position (the first of that length), also when that one equals the
\* first in text.
C4_SecondLineIsLongestOther ==
    ( /\ Classified
      /\ Cardinality({k \in 1..Len(candidates) :
                        28 <= Len(candidates[k]) /\ Len(candidates[k]) <= 36}) < 3
      /\ PassportPositions # {}
      /\ Len(candidates) >= 2 )
    => LET p == CHOOSE k \in PassportPositions : \A j \in PassportPositions : k <= j
       IN  /\ Returned
           /\ \E j \in 1..Len(candidates) :
                /\ LongestOutside(p, j)
                /\ mrz_lines = <<candidates[p], candidates[j]>>

\* the embedded check digits of three TD1 lines equal the recomputed ones
Td1DigitsRight(c) ==
    /\ RefDigit(SubSeq(c[1], 6, 14)) = <<c[1][15]>>
    /\ RefDigit(SubSeq(c[2], 1, 6)) = <<c[2][7]>>
    /\ RefDigit(SubSeq(c[2], 9, 14)) = <<c[2][15]>>
    /\ RefDigit(SubSeq(c[2], 19, 29)) = <<c[2][30]>>

\* the embedded check digits of a 44-character TD3 line 2 equal the
\* recomputed ones, the composite digit included
Td3DigitsRight(l) ==
    /\ RefDigit(SubSeq(l, 1, 9)) = <<l[10]>>
    /\ RefDigit(SubSeq(l, 14, 19)) = <<l[20]>>
    /\ RefDigit(SubSeq(l, 22, 27)) = <<l[28]>>
    /\ RefDigit(SubSeq(l, 29, 42)) = <<l[43]>>
    /\ RefDigit(SubSeq(l, 1, 10) \o SubSeq(l, 11, 43)) = <<l[44]>>

AllTrue(cd) == \A k \in DOMAIN cd : cd[k] = "True"

ThreeRightTd1Lines ==
    /\ pc = "done"
    /\ Len(candidates) = 3
    /\ \A k \in 1..3 : Len(candidates[k]) = 30
    /\ Td1DigitsRight(candidates)

\* C9: three candidate lines of 30 characters whose four embedded check
\* digits are right give a TD1 record with exactly four check_digits entries,
\* all true, and confidence 1.0; a TD3 record whose five embedded check digits
\* are right has all entries true and confidence at least 0.6.
C9_RightDigitsGiveFullConfidence ==
    /\ ThreeRightTd1Lines =>
        /\ parsed.mrz_type = TD1_TYPE
        /\ DOMAIN parsed.check_digits =
            {"document_number_valid", "dob_valid", "expiry_valid", "optional2_valid"}
        /\ AllTrue(parsed.check_digits)
        /\ FracEq(parsed.confidence, Frac(1, 1))
    /\ ( /\ pc = "done"
         /\ parsed.mrz_type = TD3_TYPE
         /\ Td3DigitsRight(Ljust(mrz_lines[2], 44, "<")) ) =>
        /\ AllTrue(parsed.check_digits)
        /\ Cardinality(DOMAIN parsed.check_digits) = 5
        /\ FracLe(Frac(6, 10), parsed.confidence)

C9_Witness ==
    /\ ThreeRightTd1Lines
    /\ parsed.mrz_type = TD1_TYPE
    /\ AllTrue(parsed.check_digits)
    /\ parsed.fields.date_of_birth # None

C9_WitnessTd3 ==
    /\ pc = "done"
    /\ parsed.mrz_type = TD3_TYPE
    /\ Td3DigitsRight(Ljust(mrz_lines[2], 44, "<"))
    /\ AllTrue(parsed.check_digits)

-----------------------------------------------------------------------------
(* The functions of the pipeline on inputs of their own                    *)

PipeIdle ==
    /\ text = <<>>
    /\ raw_lines = <<>>
    /\ idx = 0
    /\ candidates = <<>>
    /\ mrz_lines = <<>>
    /\ err = NoError
    /\ parsed = NoRecord

StringsUpTo(chars, n) == UNION {[1..m -> chars] : m \in 0..n}

(* normalize_mrz_line, applied to a raw line and again to its own result   *)

NormChars == {"7", "O", "I", "B", "S", "A", "<", "o", " "}

MaxRawLen == 4

InitNorm ==
    /\ pc = "normalize"
    /\ arg \in StringsUpTo(NormChars, MaxRawLen)
    /\ out = Idle
    /\ PipeIdle

NormalizeOnce ==
    /\ pc = "normalize"
    /\ out' = <<normalize_mrz_line(arg)>>
    /\ pc' = "renormalize"
    /\ UNCHANGED <<arg, pipeVars>>

NormalizeAgain ==
    /\ pc = "renormalize"
    /\ out' = Append(out, normalize_mrz_line(out[1]))
    /\ pc' = "normalized"
    /\ UNCHANGED <<arg, pipeVars>>

NextNorm == NormalizeOnce \/ NormalizeAgain

SpecNorm == InitNorm /\ [][NextNorm]_vars

\* C6: normalize_mrz_line is idempotent; its result holds only A-Z, 0-9 and
\* "<", and none of O, I, B, S right after a digit.
C6_NormalizeIdempotent ==
    /\ pc \in {"renormalize", "normalized"} =>
        /\ \A k \in 1..Len(out[1]) :
            out[1][k] \in Range(UpperAZ) \cup Range(Digits) \cup {"<"}
        /\ \A k \in 2..Len(out[1]) :
            ~(out[1][k] \in {"O", "I", "B", "S"} /\ out[1][k - 1] \in Range(Digits))
    /\ pc = "normalized" => out[2] = out[1]

C6_Witness ==
    /\ pc = "normalized"
    /\ Len(arg) = Len(out[1])
    /\ \E k \in 2..Len(arg) :
        arg[k] = "O" /\ arg[k - 1] = "O" /\ out[1][k] = "0" /\ out[1][k - 1] = "0"
    /\ out[2] = out[1]

(* mrz_check_digit and the comparison with an embedded digit               *)

ICAO_FIELD == <<"5", "2", "0", "7", "2", "7">>

ALTERED_FIELD == <<"5", "2", "0", "7", "2", "8">>

CheckChars == {"0", "7", "A", "Z", "<", "a"}

MaxFieldLen == 4

InitCheck ==
    /\ pc = "digit"
    /\ arg \in [field : StringsUpTo(CheckChars, MaxFieldLen) \cup {ICAO_FIELD, ALTERED_FIELD},
                embedded : Range(Digits) \cup {"<"}]
    /\ out = Idle
    /\ PipeIdle

ComputeDigit ==
    /\ pc = "digit"
    /\ out' = [digit |-> mrz_check_digit(arg.field)]
    /\ pc' = "compare"
    /\ UNCHANGED <<arg, pipeVars>>

CompareDigit ==
    /\ pc = "compare"
    /\ out' = [digit |-> out.digit, valid |-> check_valid(arg.field, arg.embedded)]
    /\ pc' = "checked"
    /\ UNCHANGED <<arg, pipeVars>>

NextCheck == ComputeDigit \/ CompareDigit

SpecCheck == InitCheck /\ [][NextCheck]_vars

NameChars == {"A", "B", "<"}

MaxNameLen == 7

TD2_HEAD == <<"I", "<", "U", "T", "O">>

TD3_HEAD == <<"P", "<", "U", "T", "O">>

Names(fields) == <<fields.surname, fields.given_names>>

InitName ==
    /\ pc = "name_td1"
    /\ arg \in StringsUpTo(NameChars, MaxNameLen)
    /\ out = Idle
    /\ PipeIdle

ParseNameTd1 ==
    /\ pc = "name_td1"
    /\ out' = <<Names(parse_td1(<<LINE_TD1_1, LINE_TD1_2, arg>>).fields)>>
    /\ pc' = "name_td2"
    /\ UNCHANGED <<arg, pipeVars>>

ParseNameTd2 ==
    /\ pc = "name_td2"
    /\ out' = Append(out, Names(parse_td2(<<TD2_HEAD \o arg, LINE_TD2_2>>).fields))
    /\ pc' = "name_td3"
    /\ UNCHANGED <<arg, pipeVars>>

ParseNameTd3 ==
    /\ pc = "name_td3"
    /\ out' = Append(out, Names(parse_td3(<<TD3_HEAD \o arg, LINE_TD3_2>>).fields))
    /\ pc' = "named"
    /\ UNCHANGED <<arg, pipeVars>>

NextName == ParseNameTd1 \/ ParseNameTd2 \/ ParseNameTd3

SpecName == InitName /\ [][NextName]_vars

\* fillers as blanks, trimmed
RefClean(x) ==
    LET y == [k \in 1..Len(x) |-> IF x[k] = "<" THEN " " ELSE x[k]]
        inked == {k \in 1..Len(y) : y[k] # " "}
    IN  IF inked = {} THEN <<>>
        ELSE SubSeq(y, CHOOSE k \in inked : \A j \in inked : k <= j,
                       CHOOSE k \in inked : \A j \in inked : j <= k)

\* the name block cut once, at its first "<<"
RefNames(block) ==
    LET seps == {k \in 1..(Len(block) - 1) : block[k] = "<" /\ block[k + 1] = "<"} IN
    IF seps = {} THEN <<RefClean(block), <<>>>>
    ELSE LET k == CHOOSE k \in seps : \A j \in seps : k <= j
         IN  <<RefClean(SubSeq(block, 1, k - 1)),
               RefClean(SubSeq(block, k + 2, Len(block)))>>

\* C5: each of the three parsers cuts the name block at its first "<<" only,
\* so each gives the surname and the given names of the split-once reference.
C5_AllParsersSplitOnce ==
    /\ pc \in {"name_td2", "name_td3", "named"} =>
        out[1] = RefNames(Ljust(arg, 30, "<"))
    /\ pc \in {"name_td3", "named"} =>
        out[2] = RefNames(Ljust(arg, 31, "<"))
    /\ pc = "named" =>
        out[3] = RefNames(Ljust(arg, 39, "<"))

(* the date conversion, through each of the three parsers                  *)

YearChars == {"0", "2", "3", "9", "A", "<"}

DayChars == {"0", "1", "b"}

DATE_1999 == <<"9", "9", "0", "1", "0", "1">>

DATE_2005 == <<"0", "5", "0", "1", "0", "1">>

DATE_1930 == <<"3", "0", "1", "2", "0", "1">>

DATE_BAD == <<"2", "9", "a", "b", "0", "1">>

DateFields ==
    {yy \o md : yy \in [1..2 -> YearChars], md \in [1..4 -> DayChars]}
    \cup {DATE_1999, DATE_2005, DATE_1930, DATE_BAD}

\* a second line of TD2 or TD3 with d as date of birth and as date of expiry
DateLineTd23(d) == Fill("<", 13) \o d \o Fill("<", 2) \o d

\* a second line of TD1 with d as date of birth and as date of expiry
DateLineTd1(d) == d \o Fill("<", 2) \o d

Dates(fields) == <<fields.date_of_birth, fields.date_of_expiry>>

InitDate ==
    /\ pc = "date_td3"
    /\ arg \in DateFields
    /\ out = Idle
    /\ PipeIdle

ConvertTd3 ==
    /\ pc = "date_td3"
    /\ out' = <<Dates(parse_td3(<<LINE_TD3_1, DateLineTd23(arg)>>).fields)>>
    /\ pc' = "date_td1"
    /\ UNCHANGED <<arg, pipeVars>>

ConvertTd1 ==
    /\ pc = "date_td1"
    /\ out' = Append(out, Dates(parse_td1(<<LINE_TD1_1, DateLineTd1(arg), LINE_TD1_3>>).fields))
    /\ pc' = "date_td2"
    /\ UNCHANGED <<arg, pipeVars>>

ConvertTd2 ==
    /\ pc = "date_td2"
    /\ out' = Append(out, Dates(parse_td2(<<LINE_TD1_3, DateLineTd23(arg)>>).fields))
    /\ pc' = "converted"
    /\ UNCHANGED <<arg, pipeVars>>

NextDate == ConvertTd3 \/ ConvertTd1 \/ ConvertTd2

SpecDate == InitDate /\ [][NextDate]_vars

\* null unless all six characters are digits; otherwise the century by the
\* first digit of the year (0, 1, 2: 20; 3 to 9: 19), the rest copied
RefDate(d) ==
    IF \E k \in 1..6 : d[k] \notin Range(Digits) THEN None
    ELSE (IF d[1] \in {"0", "1", "2"} THEN <<"2", "0">> ELSE <<"1", "9">>)
         \o <<d[1], d[2], "-", d[3], d[4], "-", d[5], d[6]>>

\* C10: in each parser the conversion of a 6-character date field is null
\* exactly when the field is not six digits, and otherwise YYYY-MM-DD with
\* years 00-29 in 2000-2029 and 30-99 in 1930-1999, month and day copied
\* unchecked; the four examples of the specification come out as given.
C10_DateConversion ==
    \A n \in 1..Len(out) :
        pc \in {"date_td1", "date_td2", "converted"} =>
            /\ out[n] = <<RefDate(arg), RefDate(arg)>>
            /\ out[n][1] = None <=> \E k \in 1..6 : arg[k] \notin Range(Digits)
            /\ arg = DATE_1999 => out[n][1] = <<"1","9","9","9","-","0","1","-","0","1">>
            /\ arg = DATE_2005 => out[n][1] = <<"2","0","0","5","-","0","1","-","0","1">>
            /\ arg = DATE_1930 => out[n][1] = <<"1","9","3","0","-","1","2","-","0","1">>
            /\ arg = DATE_BAD => out[n][1] = None

C10_Witness ==
    /\ pc = "converted"
    /\ arg = DATE_1930
    /\ Len(out) = 3
    /\ \A n \in 1..3 : out[n][2] = <<"1","9","3","0","-","1","2","-","0","1">>

(* compute_confidence, on the records of parse_mrz and on other mappings   *)

ScoredLines ==
    {LINE_TD1_1, LINE_TD1_2, LINE_TD1_2_ICAO, LINE_TD3_1, LINE_TD3_2, LINE_TD2_2}

DictValues == {"True", "False", "1", "yes"}

MaxEntries == 3

TypeNames ==
    {<<>>, <<"T">>, <<"t", "d", "1">>, <<"X", "T", "D">>, TD1_TYPE, TD3_TYPE}

Mappings ==
    LET cds == StringsUpTo(DictValues, MaxEntries) IN
    {[check_digits |-> cd, mrz_type |-> t] : cd \in cds, t \in TypeNames}
    \cup {[check_digits |-> cd] : cd \in cds}
    \cup {[mrz_type |-> t] : t \in TypeNames}

InitConf ==
    /\ pc = "score"
    /\ arg \in {[lines |-> ls] : ls \in [1..2 -> ScoredLines] \cup [1..3 -> ScoredLines]}
               \cup {[mapping |-> m] : m \in Mappings}
    /\ out = Idle
    /\ PipeIdle

\* parse_mrz(lines), which ends with compute_confidence
ScoreParsed ==
    /\ pc = "score"
    /\ "lines" \in DOMAIN arg
    /\ LET r == parse_mrz(arg.lines) IN
        /\ r.raised = NoError
        /\ out' = r.value
    /\ pc' = "scored"
    /\ UNCHANGED <<arg, pipeVars>>

\* compute_confidence(mapping)
ScoreMapping ==
    /\ pc = "score"
    /\ "mapping" \in DOMAIN arg
    /\ out' = [confidence |-> compute_confidence(arg.mapping)]
    /\ pc' = "scored"
    /\ UNCHANGED <<arg, pipeVars>>

NextConf == ScoreParsed \/ ScoreMapping

SpecConf == InitConf /\ [][NextConf]_vars

\* the fraction c is min(1, k/n + bonus/10)
IsScore(c, k, n, bonus) ==
    LET raw == 10 * k + bonus * n IN
    c.num * (10 * n) = c.den * (IF raw > 10 * n THEN 10 * n ELSE raw)

\* C8: the confidence of a record of parse_mrz is within [0, 1] and is
\* min(1, true entries / entries + 0.1); compute_confidence gives 0.3 for an
\* empty check_digits mapping, 0.4 for one without a boolean value, and adds
\* the 0.1 only when mrz_type begins with "TD".
C8_ConfidenceFormula ==
    pc = "scored" =>
        LET c == out.confidence IN
        /\ c.den > 0 /\ 0 <= c.num /\ c.num <= c.den
        /\ "lines" \in DOMAIN arg =>
            LET cd == out.check_digits
                k == Cardinality({e \in DOMAIN cd : cd[e] = "True"})
            IN  /\ \A e \in DOMAIN cd : cd[e] \in {"True", "False"}
                /\ IsScore(c, k, Cardinality(DOMAIN cd), 1)
        /\ "mapping" \in DOMAIN arg =>
            LET m == arg.mapping
                cd == IF "check_digits" \in DOMAIN m THEN m.check_digits ELSE <<>>
                n == Cardinality({e \in DOMAIN cd : cd[e] \in {"True", "False"}})
                k == Cardinality({e \in DOMAIN cd : cd[e] = "True"})
                td == /\ "mrz_type" \in DOMAIN m
                      /\ Len(m.mrz_type) >= 2
                      /\ m.mrz_type[1] = "T" /\ m.mrz_type[2] = "D"
            IN  /\ Len(cd) = 0 => c.num * 10 = c.den * 3
                /\ Len(cd) > 0 /\ n = 0 => c.num * 10 = c.den * 4
                /\ n > 0 => IsScore(c, k, n, IF td THEN 1 ELSE 0)

C8_Witness ==
    /\ pc = "scored"
    /\ "lines" \in DOMAIN arg
    /\ out.mrz_type = TD1_TYPE
    /\ out.confidence.num * 100 = out.confidence.den * 85

=============================================================================
